---- MODULE Spec2Model ----
(***************************************************************************)
(* State-machine model of the LS-8 emulator of src/cpu.py: the module     *)
(* level code, the __main__ block, CPU.load, CPU.run and the dispatch     *)
(* table handlers.  Python lists are modelled as functions over 0..n-1,   *)
(* indexed the way Python indexes them (negative indices count from the   *)
(* end, anything else out of range raises IndexError).                    *)
(***************************************************************************)
EXTENDS Integers, Sequences, FiniteSets, TLC

VARIABLES
    nargs,      \* len(sys.argv) - 1: the number of command-line arguments
    fileExists, \* whether open(sys.argv[1]) finds the file
    file,       \* the lines of the program file, as written
    lines,      \* the lines of the program file not yet read by load
    address,    \* load's local variable address
    ram,        \* self.ram
    register,   \* self.register
    flags,      \* self.flags
    counter,    \* self.counter
    stdout,     \* what print() has written, one entry per call
    status,     \* where the process is: import, main, open, loading, running, exited, crashed
    exitcode,   \* the process exit status, -1 while it runs
    err,        \* the uncaught exception, if any
    last,       \* the machine state before the most recent instruction step, and its opcode
    last2       \* the value of last before the most recent instruction step

vars == <<nargs, fileExists, file, lines, address, ram, register, flags, counter,
          stdout, status, exitcode, err, last, last2>>

(***************************************************************************)
(* Constants of src/cpu.py                                                 *)
(***************************************************************************)
E == -1
CMP == 167
LDI == 130
PRN == 71
JMP == 84
JEQ == 85
JNE == 86
HLT == 1
AND == 161
BOR == 165
NOT == 110
SHL == 171
SHR == 172
MOD == 166
XOR == 169

EXIT_FAILURE == "\nERROR: PROCESS RETURNED NON-ZERO EXIT CODE"
EXIT_SUCCESS == "SUCCESS\n"
FILE_NAME == "\nUNKNOWN FILE: cannot find file with name "
NOT_FOUND == "\nOPERATION UNKNOWN: Opcode not found, "
USAGE == "\nUSAGE: python "

RamSize == 256
RegisterCount == 8
FlagCount == 8

(***************************************************************************)
(* Python list indexing: list[i] exists iff -len <= i < len, and a         *)
(* negative i names the element len + i.                                   *)
(***************************************************************************)
InRange(i, len) == i >= 0 - len /\ i < len

Idx(i, len) == IF i < 0 THEN len + i ELSE i

(***************************************************************************)
(* Text of the program file.  A line is a sequence of one-character        *)
(* strings.                                                                *)
(***************************************************************************)
Whitespace == {" ", "\t", "\n", "\r"}

\* line.split('#')[0]: the text before the first '#'
SplitHash(s) ==
    LET hashes == {i \in 1..Len(s) : s[i] = "#"}
    IN  IF hashes = {} THEN s
        ELSE SubSeq(s, 1, (CHOOSE i \in hashes : \A j \in hashes : i <= j) - 1)

\* str.strip(): the text from its first to its last non-whitespace character
Strip(s) ==
    LET inked == {i \in 1..Len(s) : s[i] \notin Whitespace}
    IN  IF inked = {} THEN <<>>
        ELSE SubSeq(s, CHOOSE i \in inked : \A j \in inked : i <= j,
                       CHOOSE i \in inked : \A j \in inked : i >= j)

\* value = line.split('#')[0].strip()
LineValue(line) == Strip(SplitHash(line))

\* int(value, 2), the part after the sign: an optional 0b / 0B prefix
DropPrefix(s) ==
    IF Len(s) >= 2 /\ s[1] = "0" /\ s[2] \in {"b", "B"}
    THEN LET r == SubSeq(s, 3, Len(s))
         IN  IF r # <<>> /\ Head(r) = "_" THEN Tail(r) ELSE r
    ELSE s

\* the digits int(value, 2) accepts: 0 and 1, single underscores between them
DigitsOk(d) ==
    /\ d # <<>>
    /\ \A i \in 1..Len(d) : d[i] \in {"0", "1", "_"}
    /\ d[1] # "_"
    /\ d[Len(d)] # "_"
    /\ \A i \in 1..(Len(d) - 1) : ~(d[i] = "_" /\ d[i + 1] = "_")

\* a conversion that adds the digits up instead of weighting them
BinValueOnes(d) ==
    LET acc[i \in 0..Len(d)] ==
            IF i = 0 THEN 0
            ELSE acc[i - 1] + (IF d[i] = "1" THEN 1 ELSE 0)
    IN  acc[Len(d)]

\* the value of the digits, most significant first, underscores skipped
BinValue(d) ==
    LET acc[i \in 0..Len(d)] ==
            IF i = 0 THEN 0
            ELSE IF d[i] = "_" THEN acc[i - 1]
            ELSE 2 * acc[i - 1] + (IF d[i] = "1" THEN 1 ELSE 0)
    IN  acc[Len(d)]

\* int(value, 2): ok is FALSE where Python raises ValueError
ParseInt2(value) ==
    LET signed == value # <<>> /\ Head(value) \in {"+", "-"}
        body == DropPrefix(IF signed THEN Tail(value) ELSE value)
        neg == signed /\ Head(value) = "-"
    IN  IF DigitsOk(body)
        THEN [ok |-> TRUE, val |-> IF neg THEN 0 - BinValue(body) ELSE BinValue(body)]
        ELSE [ok |-> FALSE, val |-> 0]

(***************************************************************************)
(* The program files the model runs.  A program is written here as the     *)
(* sequence of its values; TextOf gives its file, one base-2 literal per   *)
(* line as load reads them ("for line in program").                        *)
(***************************************************************************)
MaxArgs == 3
MaxOut == 3

RECURSIVE Bits(_, _)
\* the base-2 digits of n >= 0, at least w of them
Bits(n, w) ==
    IF n < 2 /\ w <= 1 THEN <<IF n = 1 THEN "1" ELSE "0">>
    ELSE Bits(n \div 2, w - 1) \o <<IF n % 2 = 1 THEN "1" ELSE "0">>

TextLine(n) ==
    (IF n < 0 THEN <<"-">> \o Bits(0 - n, 8) ELSE Bits(n, 8)) \o <<"\n">>

TextOf(prog) == [i \in 1..Len(prog) |-> TextLine(prog[i])]

Zeros(n) == [i \in 1..n |-> 0]

ByteSample == {0, 1, 8, 255}
WideSample == {256, 0 - 1}
RegSample == (0..7) \cup {8, 255, 0 - 1, 0 - 8, 0 - 9}
CmpSample == {0, 1, 255}
Stretch == {AND, BOR, NOT, SHL, SHR, MOD, XOR}

\* LDI r v; PRN r; HLT
Straight(r, v) == <<LDI, r, v, PRN, r, HLT>>

\* two compares around a jump through register 2
Compare(ra, rb, a, b, j) ==
    <<LDI, 2, 17, LDI, ra, a, LDI, rb, b, CMP, ra, rb, j, 2,
      PRN, ra, HLT, CMP, rb, ra, PRN, rb, HLT>>

\* a stretch opcode between two loads and a halt
Stub(op, a, b) == <<LDI, 0, a, LDI, 1, b, op, 0, 1, HLT>>

\* a jump to the address v
Jump(v) == <<LDI, 0, v, JMP, 0, PRN, 0, HLT>>

\* an instruction placed at address t, reached by a jump, with E set or clear
Top(t, ins, eq) ==
    LET head == (IF eq THEN <<CMP, 0, 0>> ELSE <<LDI, 1, 1, CMP, 0, 1>>)
                \o <<LDI, 0, t, JMP, 0>>
        all == head \o Zeros(t - Len(head)) \o ins
    IN  SubSeq(all, 1, IF Len(all) < RamSize THEN Len(all) ELSE RamSize)

\* n loads in a row and then the instructions of tail: no jump, a full memory
RunOff(n, tail) == [i \in 1..(3 * n) |-> <<LDI, 0, 0>>[((i - 1) % 3) + 1]] \o tail

TopInstructions ==
    {<<LDI, 0, 0>>, <<PRN, 0>>, <<CMP, 0, 0>>, <<JEQ, 0>>, <<JNE, 0>>,
     <<JMP, 0>>, <<HLT>>, <<MOD, 0, 1>>}

Programs ==
    {Straight(r, v) : r \in RegSample, v \in ByteSample \cup WideSample}
    \cup {Compare(ra, rb, a, b, j) :
            ra \in 0..7, rb \in 0..7, a \in CmpSample, b \in CmpSample,
            j \in {JMP, JEQ, JNE}}
    \cup {Stub(op, a, b) : op \in Stretch, a \in {1, 255}, b \in {0, 1}}
    \cup {Jump(v) : v \in {5, 255, 256, 0 - 1, 0 - 256, 0 - 257}}
    \cup {Top(t, ins, eq) :
            t \in {253, 254, 255}, ins \in TopInstructions, eq \in BOOLEAN}
    \cup {<<b>> : b \in {0, 2, 255, 256, 0 - 1}}
    \cup {<<PRN, 0, b>> : b \in {0, 2, 255, 256, 0 - 1}}
    \cup {<<LDI, 0, 0, PRN, 0, JMP, 0>>}
    \cup {Zeros(RamSize + 1)}
    \cup {RunOff(84, <<PRN, 0, PRN, 0>>), RunOff(85, <<LDI>>), RunOff(84, <<CMP, 0, 0, HLT>>)}

\* files written with comments, blank lines, signs, prefixes and bad digits
Texts ==
    {<<>>,
     <<<<"#", " ", "p", "\n">>, <<"\n">>,
       <<"1", "0", "0", "0", "0", "0", "1", "0", " ", "#", "L", "\n">>,
       <<" ", "0", "\n">>, <<"\t", "1", "0", "0", "0", "\r", "\n">>,
       <<"0", "1", "0", "0", "0", "1", "1", "1", "#", "\n">>,
       <<"0", "b", "0", "\n">>, <<" ", " ", "\n">>, <<"+", "1">> >>,
     <<<<"1", "_", "0", "\n">> >>,
     <<<<"0", "0", "0", "0", "0", "0", "0", "1", "\n">>, <<"2", "\n">> >>,
     <<<<"1", " ", "0", "\n">> >>,
     <<<<"-", "\n">> >>}

ProgramTexts == {TextOf(p) : p \in Programs} \cup Texts

(***************************************************************************)
(* Output and errors                                                       *)
(***************************************************************************)
\* print(n) of an integer, print(a, b) of strings: one entry of stdout each
StdoutInt(n) == [kind |-> "int", num |-> n, text |-> <<>>]
StdoutText(t) == [kind |-> "str", num |-> 0, text |-> t]

NoError == [type |-> "", msg |-> "", val |-> 0]

\* an exception nothing catches: traceback, exit status 1
Crash(type, msg, val) ==
    /\ status' = "crashed"
    /\ exitcode' = 1
    /\ err' = [type |-> type, msg |-> msg, val |-> val]

\* sys.exit(code)
Exit(code) ==
    /\ status' = "exited"
    /\ exitcode' = code
    /\ err' = NoError

NoStep ==
    [kind |-> "none", op |-> 0, counter |-> 0,
     register |-> [i \in 0..(RegisterCount - 1) |-> 0],
     flags |-> [i \in 0..(FlagCount - 1) |-> 0],
     ram |-> [i \in 0..(RamSize - 1) |-> 0], stdout |-> <<>>]

(***************************************************************************)
(* Construction: CPU.__init__, with the process about to import the module *)
(***************************************************************************)
Init ==
    /\ nargs \in 0..MaxArgs
    /\ fileExists \in BOOLEAN
    /\ file \in IF nargs = 1 /\ fileExists THEN ProgramTexts ELSE {<<>>}
    /\ lines = file
    /\ address = 0
    /\ ram = [i \in 0..(RamSize - 1) |-> 0]
    /\ register = [i \in 0..(RegisterCount - 1) |-> 0]
    /\ flags = [i \in 0..(FlagCount - 1) |-> 0]
    /\ counter = 0
    /\ stdout = <<>>
    /\ status = "import"
    /\ exitcode = 0 - 1
    /\ err = NoError
    /\ last = NoStep
    /\ last2 = NoStep

(***************************************************************************)
(* Module level and __main__                                               *)
(***************************************************************************)
\* FILE_NAME and USAGE are f-strings evaluated at import: sys.argv[1]
ModuleLevel ==
    /\ status = "import"
    /\ IF nargs >= 1
       THEN status' = "main" /\ UNCHANGED <<exitcode, err>>
       ELSE Crash("IndexError", "", 0)
    /\ UNCHANGED <<nargs, fileExists, file, lines, address, ram, register, flags,
                   counter, stdout, last, last2>>

\* if len(sys.argv) == 2: ... else: print(EXIT_FAILURE, USAGE); sys.exit(1)
Main ==
    /\ status = "main"
    /\ IF nargs + 1 = 2
       THEN status' = "open" /\ UNCHANGED <<exitcode, err, stdout>>
       ELSE /\ stdout' = Append(stdout, StdoutText(<<EXIT_FAILURE, USAGE>>))
            /\ Exit(1)
    /\ UNCHANGED <<nargs, fileExists, file, lines, address, ram, register, flags,
                   counter, last, last2>>

(***************************************************************************)
(* CPU.load                                                                *)
(***************************************************************************)
\* self.ram[mar] = mdr
ram_write(mar, mdr) == [ram EXCEPT ![Idx(mar, RamSize)] = mdr]

\* self.ram[mar]
ram_read(mar) == ram[Idx(mar, RamSize)]

\* address = 0; with open(file) as program; except FileNotFoundError
LoadOpen ==
    /\ status = "open"
    /\ IF fileExists
       THEN /\ status' = "loading"
            /\ address' = 0
            /\ UNCHANGED <<exitcode, err, stdout>>
       ELSE /\ stdout' = Append(stdout, StdoutText(<<EXIT_FAILURE, FILE_NAME>>))
            /\ Exit(2)
            /\ UNCHANGED address
    /\ UNCHANGED <<nargs, fileExists, file, lines, ram, register, flags, counter,
                   last, last2>>

\* value = line.split('#')[0].strip() of the line the loop is at
NextValue == LineValue(Head(lines))

\* "for line in program": a line with nothing before its comment is skipped
LoadSkip ==
    /\ status = "loading"
    /\ lines # <<>>
    /\ \E value \in {NextValue} : value = <<>>
    /\ lines' = Tail(lines)
    /\ UNCHANGED <<nargs, fileExists, file, address, ram, register, flags, counter,
                   stdout, status, exitcode, err, last, last2>>

\* instruction = int(value, 2) raises ValueError
LoadValueError ==
    /\ status = "loading"
    /\ lines # <<>>
    /\ \E value \in {NextValue} :
            value # <<>> /\ ~ParseInt2(value).ok
    /\ lines' = Tail(lines)
    /\ Crash("ValueError", "", 0)
    /\ UNCHANGED <<nargs, fileExists, file, address, ram, register, flags, counter,
                   stdout, last, last2>>

\* self.ram_write(address, instruction) raises IndexError
LoadIndexError ==
    /\ status = "loading"
    /\ lines # <<>>
    /\ \E value \in {NextValue} :
            value # <<>> /\ ParseInt2(value).ok
    /\ ~InRange(address, RamSize)
    /\ lines' = Tail(lines)
    /\ Crash("IndexError", "", 0)
    /\ UNCHANGED <<nargs, fileExists, file, address, ram, register, flags, counter,
                   stdout, last, last2>>

\* self.ram_write(address, instruction); address += 1
LoadLine ==
    /\ status = "loading"
    /\ lines # <<>>
    /\ InRange(address, RamSize)
    /\ \E value \in {NextValue} :
            /\ value # <<>>
            /\ \E instruction \in {ParseInt2(value)} :
                    /\ instruction.ok
                    /\ ram' = ram_write(address, instruction.val)
    /\ lines' = Tail(lines)
    /\ address' = address + 1
    /\ UNCHANGED <<nargs, fileExists, file, register, flags, counter, stdout,
                   status, exitcode, err, last, last2>>

\* the file is exhausted: load returns and run enters its loop
LoadDone ==
    /\ status = "loading"
    /\ lines = <<>>
    /\ status' = "running"
    /\ UNCHANGED <<nargs, fileExists, file, lines, address, ram, register, flags,
                   counter, stdout, exitcode, err, last, last2>>

(***************************************************************************)
(* CPU.run: one iteration of "while True" per step                         *)
(***************************************************************************)
\* the keys of self.dispatch
Dispatch == {PRN, JMP, CMP, JEQ, JNE, LDI, HLT, AND, BOR, NOT, SHL, SHR, MOD, XOR}

\* a dispatch table without the seven stretch entries
InDispatchBase(operation) == operation \in {PRN, JMP, CMP, JEQ, JNE, LDI, HLT}

\* operation in self.dispatch
InDispatch(operation) == operation \in Dispatch

\* the state an instruction step starts from
Snapshot(kind) ==
    [kind |-> kind,
     op |-> IF kind = "op" THEN ram_read(counter) ELSE 0,
     counter |-> counter, register |-> register, flags |-> flags,
     ram |-> ram, stdout |-> stdout]

Record(kind) == last' = Snapshot(kind) /\ last2' = last

\* operation = self.ram_read(self.counter) succeeds and gives op
Fetched(op) ==
    /\ status = "running"
    /\ InRange(counter, RamSize)
    /\ ram_read(counter) = op

\* self.ram_read(self.counter + k) succeeds
OperandOk(k) == InRange(counter + k, RamSize)

Operand(k) == ram_read(counter + k)

\* self.register[r] exists
RegisterOk(r) == InRange(r, RegisterCount)

\* operation = self.ram_read(self.counter) raises IndexError
FetchError ==
    /\ status = "running"
    /\ ~InRange(counter, RamSize)
    /\ Record("fetch")
    /\ Crash("IndexError", "", 0)
    /\ UNCHANGED <<nargs, fileExists, file, lines, address, ram, register, flags,
                   counter, stdout>>

\* a raise that reports the address of the opcode instead of the opcode
UnknownArgsAddress(operation) == [type |-> "Exception", msg |-> NOT_FOUND, val |-> counter]

\* the arguments of the exception run raises for an opcode without handler
UnknownArgs(operation) == [type |-> "Exception", msg |-> NOT_FOUND, val |-> operation]

\* raise Exception(NOT_FOUND, operation)
UnknownOpcode ==
    /\ status = "running"
    /\ InRange(counter, RamSize)
    /\ ~InDispatch(ram_read(counter))
    /\ Record("op")
    /\ status' = "crashed"
    /\ exitcode' = 1
    /\ err' = UnknownArgs(ram_read(counter))
    /\ UNCHANGED <<nargs, fileExists, file, lines, address, ram, register, flags,
                   counter, stdout>>

(***************************************************************************)
(* CPU._alu                                                                *)
(***************************************************************************)
\* the flags after _alu('CMP', register_a, register_b)
alu(fl, reg, register_a, register_b) ==
    IF reg[Idx(register_a, RegisterCount)] = reg[Idx(register_b, RegisterCount)]
    THEN [fl EXCEPT ![Idx(E, FlagCount)] = 1]
    ELSE [fl EXCEPT ![Idx(E, FlagCount)] = 0]

(***************************************************************************)
(* Dispatch table                                                          *)
(***************************************************************************)
\* a print of the register index instead of the register
prn_value_index(reg, r) == r

\* the value print() receives in _dispatch_prn
prn_value(reg, r) == reg[Idx(r, RegisterCount)]

dispatch_prn ==
    /\ Fetched(PRN)
    /\ Len(stdout) < MaxOut
    /\ Record("op")
    /\ IF OperandOk(1) /\ RegisterOk(Operand(1))
       THEN /\ stdout' = Append(stdout, StdoutInt(prn_value(register, Operand(1))))
            /\ counter' = counter + 2
            /\ UNCHANGED <<status, exitcode, err>>
       ELSE /\ Crash("IndexError", "", 0)
            /\ UNCHANGED <<stdout, counter>>
    /\ UNCHANGED <<nargs, fileExists, file, lines, address, ram, register, flags>>

\* a jump that goes on to advance the counter by the instruction width
jmp_counter_advancing(reg, c, next_register) == reg[Idx(next_register, RegisterCount)] + 2

\* self.counter = self.register[next_register]
jmp_counter(reg, c, next_register) == reg[Idx(next_register, RegisterCount)]

dispatch_jmp ==
    /\ Fetched(JMP)
    /\ Record("op")
    /\ IF OperandOk(1) /\ RegisterOk(Operand(1))
       THEN /\ counter' = jmp_counter(register, counter, Operand(1))
            /\ UNCHANGED <<status, exitcode, err>>
       ELSE /\ Crash("IndexError", "", 0)
            /\ UNCHANGED counter
    /\ UNCHANGED <<nargs, fileExists, file, lines, address, ram, register, flags, stdout>>

\* a JEQ that consumes the flag it has tested
dispatch_jeq_clearing ==
    /\ status = "running"
    /\ InRange(counter, RamSize)
    /\ ram[Idx(counter, RamSize)] = JEQ
    /\ last' = [kind |-> "op", op |-> JEQ, counter |-> counter,
                register |-> register, flags |-> flags, ram |-> ram,
                stdout |-> stdout]
    /\ last2' = last
    /\ flags' = [flags EXCEPT ![Idx(E, FlagCount)] = 0]
    /\ counter' = counter + 2
    /\ UNCHANGED <<nargs, fileExists, file, lines, address, ram, register, stdout,
                   status, exitcode, err>>

\* if self.flags[E] == 1
jeq_taken(fl) == fl[Idx(E, FlagCount)] = 1

dispatch_jeq ==
    /\ Fetched(JEQ)
    /\ Record("op")
    /\ IF jeq_taken(flags)
       THEN IF OperandOk(1) /\ RegisterOk(Operand(1))
            THEN /\ counter' = register[Idx(Operand(1), RegisterCount)]
                 /\ UNCHANGED <<status, exitcode, err>>
            ELSE /\ Crash("IndexError", "", 0)
                 /\ UNCHANGED counter
       ELSE /\ counter' = counter + 2
            /\ UNCHANGED <<status, exitcode, err>>
    /\ UNCHANGED <<nargs, fileExists, file, lines, address, ram, register, flags, stdout>>

\* a JNE that tests the flag the way JEQ does
jne_taken_as_jeq(fl) == fl[Idx(E, FlagCount)] = 1

\* if self.flags[E] == 0
jne_taken(fl) == fl[Idx(E, FlagCount)] = 0

dispatch_jne ==
    /\ Fetched(JNE)
    /\ Record("op")
    /\ IF jne_taken(flags)
       THEN IF OperandOk(1) /\ RegisterOk(Operand(1))
            THEN /\ counter' = register[Idx(Operand(1), RegisterCount)]
                 /\ UNCHANGED <<status, exitcode, err>>
            ELSE /\ Crash("IndexError", "", 0)
                 /\ UNCHANGED counter
       ELSE /\ counter' = counter + 2
            /\ UNCHANGED <<status, exitcode, err>>
    /\ UNCHANGED <<nargs, fileExists, file, lines, address, ram, register, flags, stdout>>

\* a load that stores the register index instead of the immediate
ldi_register_index(reg, r, v) == [reg EXCEPT ![Idx(r, RegisterCount)] = r]

\* self.register[r] = v
ldi_register(reg, r, v) == [reg EXCEPT ![Idx(r, RegisterCount)] = v]

\* a load that stores the immediate in memory through ram_write
dispatch_ldi_to_ram ==
    /\ Fetched(LDI)
    /\ Record("op")
    /\ IF OperandOk(2) /\ OperandOk(1) /\ RegisterOk(Operand(1))
       THEN /\ ram' = [ram EXCEPT ![Idx(Operand(1), RegisterCount)] = Operand(2)]
            /\ counter' = counter + 3
            /\ UNCHANGED <<status, exitcode, err>>
       ELSE /\ Crash("IndexError", "", 0)
            /\ UNCHANGED <<ram, counter>>
    /\ UNCHANGED <<nargs, fileExists, file, lines, address, register, flags, stdout>>

dispatch_ldi ==
    /\ Fetched(LDI)
    /\ Record("op")
    /\ IF OperandOk(2) /\ OperandOk(1) /\ RegisterOk(Operand(1))
       THEN /\ register' = ldi_register(register, Operand(1), Operand(2))
            /\ counter' = counter + 3
            /\ UNCHANGED <<status, exitcode, err>>
       ELSE /\ Crash("IndexError", "", 0)
            /\ UNCHANGED <<register, counter>>
    /\ UNCHANGED <<nargs, fileExists, file, lines, address, ram, flags, stdout>>

\* the status sys.exit receives in _dispatch_hlt
hlt_status == 0

dispatch_hlt ==
    /\ Fetched(HLT)
    /\ Record("op")
    /\ counter' = 0
    /\ stdout' = Append(stdout, StdoutText(<<EXIT_SUCCESS>>))
    /\ Exit(hlt_status)
    /\ UNCHANGED <<nargs, fileExists, file, lines, address, ram, register, flags>>

\* a compare that leaves the counter on its own opcode
dispatch_cmp_stalled ==
    /\ Fetched(CMP)
    /\ Record("op")
    /\ IF /\ OperandOk(1) /\ OperandOk(2)
          /\ RegisterOk(Operand(1)) /\ RegisterOk(Operand(2))
       THEN /\ flags' = alu(flags, register, Operand(1), Operand(2))
            /\ UNCHANGED <<counter, status, exitcode, err>>
       ELSE /\ Crash("IndexError", "", 0)
            /\ UNCHANGED <<flags, counter>>
    /\ UNCHANGED <<nargs, fileExists, file, lines, address, ram, register, stdout>>

dispatch_cmp ==
    /\ Fetched(CMP)
    /\ Record("op")
    /\ IF /\ OperandOk(1) /\ OperandOk(2)
          /\ RegisterOk(Operand(1)) /\ RegisterOk(Operand(2))
       THEN /\ flags' = alu(flags, register, Operand(1), Operand(2))
            /\ counter' = counter + 3
            /\ UNCHANGED <<status, exitcode, err>>
       ELSE /\ Crash("IndexError", "", 0)
            /\ UNCHANGED <<flags, counter>>
    /\ UNCHANGED <<nargs, fileExists, file, lines, address, ram, register, stdout>>

(***************************************************************************)
(* Stretch methods: each body is a docstring and nothing else              *)
(***************************************************************************)
dispatch_and ==
    /\ Fetched(AND)
    /\ Record("op")
    /\ UNCHANGED <<nargs, fileExists, file, lines, address, ram, register, flags,
                   counter, stdout, status, exitcode, err>>

dispatch_bor ==
    /\ Fetched(BOR)
    /\ Record("op")
    /\ UNCHANGED <<nargs, fileExists, file, lines, address, ram, register, flags,
                   counter, stdout, status, exitcode, err>>

dispatch_not ==
    /\ Fetched(NOT)
    /\ Record("op")
    /\ UNCHANGED <<nargs, fileExists, file, lines, address, ram, register, flags,
                   counter, stdout, status, exitcode, err>>

dispatch_shl ==
    /\ Fetched(SHL)
    /\ Record("op")
    /\ UNCHANGED <<nargs, fileExists, file, lines, address, ram, register, flags,
                   counter, stdout, status, exitcode, err>>

dispatch_shr ==
    /\ Fetched(SHR)
    /\ Record("op")
    /\ UNCHANGED <<nargs, fileExists, file, lines, address, ram, register, flags,
                   counter, stdout, status, exitcode, err>>

dispatch_mod ==
    /\ Fetched(MOD)
    /\ Record("op")
    /\ UNCHANGED <<nargs, fileExists, file, lines, address, ram, register, flags,
                   counter, stdout, status, exitcode, err>>

dispatch_xor ==
    /\ Fetched(XOR)
    /\ Record("op")
    /\ UNCHANGED <<nargs, fileExists, file, lines, address, ram, register, flags,
                   counter, stdout, status, exitcode, err>>

(***************************************************************************)
(* Specification                                                           *)
(***************************************************************************)
Step ==
    \/ FetchError
    \/ UnknownOpcode
    \/ dispatch_prn
    \/ dispatch_jmp
    \/ dispatch_cmp
    \/ dispatch_jeq
    \/ dispatch_jne
    \/ dispatch_ldi
    \/ dispatch_hlt
    \/ dispatch_and
    \/ dispatch_bor
    \/ dispatch_not
    \/ dispatch_shl
    \/ dispatch_shr
    \/ dispatch_mod
    \/ dispatch_xor

Next ==
    \/ ModuleLevel
    \/ Main
    \/ LoadOpen
    \/ LoadSkip
    \/ LoadValueError
    \/ LoadIndexError
    \/ LoadLine
    \/ LoadDone
    \/ Step

Spec == Init /\ [][Next]_vars

\* "while True" in run: the loop goes on to its next iteration for as long as
\* no handler exits and no exception is raised
FairSpec == Spec /\ WF_vars(Step)

(***************************************************************************)
(* Properties.  last is the state an instruction step started from, so a   *)
(* state with last.kind = "op" is the state right after the step that      *)
(* fetched last.op at last.counter.                                        *)
(***************************************************************************)
Registers == 0..(RegisterCount - 1)
Addresses == 0..(RamSize - 1)

\* the step recorded in s fetched the opcode op
Executed(s, op) == s.kind = "op" /\ s.op = op

\* the operand byte k places after the opcode of the step recorded in s
HasOperand(s, k) == InRange(s.counter + k, RamSize)
OperandOf(s, k) == s.ram[Idx(s.counter + k, RamSize)]

\* the step recorded in s had register indices in 0..7 as its first n operands
RegisterOperands(s, n) ==
    \A k \in 1..n : HasOperand(s, k) /\ OperandOf(s, k) \in Registers

Bit(b) == IF b THEN 1 ELSE 0

\* C1: after CMP ra rb on register values a and b the flag register holds
\* equal = (a = b) in the E slot, and greater = (a > b) and less = (a < b) in
\* two further slots of their own, all three written by the CMP.
CmpSetsThreeFlags ==
    (Executed(last, CMP) /\ status = "running" /\ RegisterOperands(last, 2)) =>
        LET a == last.register[OperandOf(last, 1)]
            b == last.register[OperandOf(last, 2)]
            e == Idx(E, FlagCount)
        IN  /\ flags[e] = Bit(a = b)
            /\ \E g, l \in (0..(FlagCount - 1)) \ {e} :
                    /\ g # l
                    /\ flags[g] = Bit(a > b)
                    /\ flags[l] = Bit(a < b)

\* C2: in the state a JEQ or JNE step starts from, exactly one of the two
\* instructions takes the jump; the executed one sets the counter to
\* register[reg] if it is the one that jumps and to counter + 2 otherwise,
\* and changes no register, flag, memory cell or output.
JeqJneExactlyOneJumps ==
    (last.kind = "op" /\ last.op \in {JEQ, JNE} /\ RegisterOperands(last, 1)) =>
        LET jumps == IF last.op = JEQ THEN jeq_taken(last.flags)
                     ELSE jne_taken(last.flags)
        IN  /\ jeq_taken(last.flags) # jne_taken(last.flags)
            /\ status = "running"
            /\ counter = IF jumps THEN last.register[OperandOf(last, 1)]
                         ELSE last.counter + 2
            /\ register = last.register
            /\ flags = last.flags
            /\ ram = last.ram
            /\ stdout = last.stdout

\* C2 witnesses: a JEQ that jumped away from the next instruction and, in
\* the same flag state, the fall-through of JNE is what the pair describes
JeqJumped ==
    /\ Executed(last, JEQ) /\ RegisterOperands(last, 1)
    /\ status = "running"
    /\ jeq_taken(last.flags)
    /\ counter = last.register[OperandOf(last, 1)]
    /\ counter # last.counter + 2

\* C3: JMP r with register[r] = A sets the counter to A, without adding the
\* instruction width, and changes no register, flag, memory cell or output.
JmpSetsCounterOnly ==
    (Executed(last, JMP) /\ RegisterOperands(last, 1)) =>
        /\ status = "running"
        /\ counter = last.register[OperandOf(last, 1)]
        /\ register = last.register
        /\ flags = last.flags
        /\ ram = last.ram
        /\ stdout = last.stdout

JmpJumped ==
    /\ Executed(last, JMP) /\ RegisterOperands(last, 1)
    /\ status = "running"
    /\ counter = 17
    /\ last.counter = 12

\* the opcodes of the catalog, and the operand count in the two high bits
Catalog == {HLT, LDI, PRN, JMP, JEQ, JNE, CMP, AND, BOR, NOT, SHL, SHR, MOD, XOR}
OperandCount(op) == op \div 64

\* C4: a step of LDI, PRN, CMP, AND, BOR, NOT, SHL, SHR, MOD, XOR or of an
\* untaken JEQ / JNE that completes advances the counter by 1 + the operand
\* count in the two most-significant bits of the opcode.
StepAdvancesByWidth ==
    (/\ last.kind = "op"
     /\ status = "running"
     /\ \/ last.op \in {LDI, PRN, CMP, AND, BOR, NOT, SHL, SHR, MOD, XOR}
        \/ last.op = JEQ /\ ~jeq_taken(last.flags)
        \/ last.op = JNE /\ ~jne_taken(last.flags)) =>
        counter = last.counter + 1 + OperandCount(last.op)

\* C5: a step that fetches a byte outside the catalog ends the run in the
\* unknown-opcode exception carrying that byte, changes no register, flag,
\* memory cell or the counter and writes no output (at address 0 of a fresh
\* machine the output is still empty).
UnknownOpcodeIsFatal ==
    (last.kind = "op" /\ last.op \notin Catalog) =>
        /\ status = "crashed"
        /\ err = [type |-> "Exception", msg |-> NOT_FOUND, val |-> last.op]
        /\ register = last.register
        /\ flags = last.flags
        /\ ram = last.ram
        /\ counter = last.counter
        /\ stdout = last.stdout
        /\ (last2.kind = "none" => stdout = <<>>)

UnknownOpcodeSeen ==
    /\ last.kind = "op" /\ last.op = 2
    /\ last.counter = 2
    /\ status = "crashed"
    /\ Len(stdout) = 1

UnknownOpcodeAtZero ==
    /\ last.kind = "op" /\ last.op = 2
    /\ last.counter = 0 /\ last2.kind = "none"
    /\ status = "crashed"

\* C6: LDI r v immediately followed by PRN r, r in 0..7: the LDI advanced
\* the counter by 3, the PRN by 2, the PRN appended exactly v to the output
\* and register[r] is v.
LdiThenPrnEmitsValue ==
    (/\ Executed(last2, LDI) /\ RegisterOperands(last2, 1) /\ HasOperand(last2, 2)
     /\ Executed(last, PRN) /\ HasOperand(last, 1)
     /\ OperandOf(last, 1) = OperandOf(last2, 1)) =>
        LET r == OperandOf(last2, 1)
            v == OperandOf(last2, 2)
        IN  /\ status = "running"
            /\ last.counter = last2.counter + 3
            /\ counter = last.counter + 2
            /\ last.stdout = last2.stdout
            /\ stdout = Append(last.stdout, StdoutInt(v))
            /\ register[r] = v
            /\ last.register[r] = v

LdiThenPrnDone ==
    /\ Executed(last2, LDI) /\ Executed(last, PRN)
    /\ OperandOf(last2, 1) = 7 /\ OperandOf(last, 1) = 7
    /\ OperandOf(last2, 2) = 255
    /\ stdout = <<StdoutInt(255)>>

\* the memory load leaves behind for a program of at most RamSize values
Image(prog) == [i \in Addresses |-> IF i < Len(prog) THEN prog[i + 1] ELSE 0]

\* LDI r0 8; PRN r0; HLT
Program8 == <<LDI, 0, 8, PRN, 0, HLT>>

\* a freshly constructed machine that has just loaded Program8
Loaded8 ==
    /\ status = "running"
    /\ last.kind = "none"
    /\ ram = Image(Program8)
    /\ counter = 0
    /\ stdout = <<>>

\* C7 as stated: the run of LDI r0 8; PRN r0; HLT ends with exit status 0
\* and the single value 8 as its complete output.
Program8OutputIsEight ==
    (status = "exited" /\ ram = Image(Program8) /\ Executed(last, HLT)) =>
        /\ exitcode = 0
        /\ stdout = <<StdoutInt(8)>>

Halted8 ==
    /\ status = "exited"
    /\ exitcode = 0
    /\ ram = Image(Program8)
    /\ Executed(last, HLT)
    /\ stdout = <<StdoutInt(8), StdoutText(<<EXIT_SUCCESS>>)>>

\* C7 amended: the run of LDI r0 8; PRN r0; HLT eventually halts with exit
\* status 0, its complete output being the value 8 followed by the success
\* banner HLT prints, and no step is taken once the process has exited.
Program8HaltsWithBanner ==
    /\ Loaded8 ~> Halted8
    /\ [][status # "exited"]_vars

\* C8: MOD ra rb with register[rb] = 0 ends the run in a division-by-zero
\* error and leaves every register and memory cell as it was.
ModByZeroIsFatal ==
    (/\ Executed(last, MOD) /\ RegisterOperands(last, 2)
     /\ last.register[OperandOf(last, 2)] = 0) =>
        /\ status = "crashed"
        /\ err.type = "ZeroDivisionError"
        /\ register = last.register
        /\ ram = last.ram

\* the step about to run makes an access outside 0..255 of memory or 0..7 of
\* the registers: the fetch, the operand reads of its handler, or the
\* register its operand names
AccessOutOfRange ==
    \/ counter \notin Addresses
    \/ LET op == ram[counter]
           reads1 == \/ op \in {PRN, JMP, LDI, CMP}
                     \/ op = JEQ /\ jeq_taken(flags)
                     \/ op = JNE /\ jne_taken(flags)
       IN  \/ reads1 /\ counter + 1 \notin Addresses
           \/ reads1 /\ ram[counter + 1] \notin Registers
           \/ op \in {LDI, CMP} /\ counter + 2 \notin Addresses
           \/ op = CMP /\ ram[counter + 2] \notin Registers

\* the loader is about to write a value at an address outside 0..255
LoadOutOfRange ==
    /\ lines # <<>>
    /\ LineValue(Head(lines)) # <<>>
    /\ ParseInt2(LineValue(Head(lines))).ok
    /\ address \notin Addresses

\* C9: every loader write or instruction step that accesses memory outside
\* 0..255 or a register outside 0..7 ends the run in a fatal error and
\* changes no register, flag or memory cell (nothing wraps around).
OutOfRangeIsFatal ==
    [][/\ (status = "running" /\ AccessOutOfRange) =>
            (status' = "crashed" /\ UNCHANGED <<register, flags, ram>>)
       /\ (status = "loading" /\ LoadOutOfRange) =>
            (status' = "crashed" /\ UNCHANGED <<register, flags, ram>>)]_vars

\* every value the loader put in memory is a byte
ByteProgram == \A i \in Addresses : ram[i] \in 0..255

\* C10: in every reachable state of a run of a program of byte values the
\* program counter is in 0..255.
CounterIsAnAddress ==
    ByteProgram => counter \in Addresses

\* C11: in every reachable state each of the 8 registers holds a value in
\* 0..255, whatever program text the loader accepted.
RegistersAreBytes ==
    \A r \in Registers : register[r] \in 0..255

\* C12: the flags are all zero until the first instruction step, and a step
\* that is not a CMP (any other opcode, the unknown-opcode failure, a failed
\* fetch) leaves all flags as they were.
FlagsChangeOnlyByCmp ==
    /\ last.kind = "none" => \A i \in 0..(FlagCount - 1) : flags[i] = 0
    /\ (last.kind # "none" /\ ~Executed(last, CMP)) => flags = last.flags

FlagKeptByJeq ==
    /\ Executed(last2, CMP)
    /\ Executed(last, JEQ)
    /\ status = "running"
    /\ flags[Idx(E, FlagCount)] = 1

\* 2 to the power n
Pow2(n) ==
    LET p[i \in 0..n] == IF i = 0 THEN 1 ELSE 2 * p[i - 1]
    IN  p[n]

IsBinaryDigit(c) == c \in {"0", "1"}

\* the base-2 value of a literal: its sign, and each digit weighted by its place
Base2(value) ==
    LET digits == SelectSeq(value, IsBinaryDigit)
        n == Len(digits)
        sum[i \in 0..n] ==
            IF i = 0 THEN 0
            ELSE sum[i - 1] + (IF digits[i] = "1" THEN Pow2(n - i) ELSE 0)
    IN  IF value # <<>> /\ Head(value) = "-" THEN 0 - sum[n] ELSE sum[n]

HasValue(line) == LineValue(line) # <<>>

\* the values of the lines of a file that are not blank or comment only
ValuesOf(text) ==
    LET kept == SelectSeq(text, HasValue)
    IN  [i \in 1..Len(kept) |-> Base2(LineValue(kept[i]))]

\* C13: when load has returned, memory cell i holds the base-2 value of the
\* i-th line of the file that is non-empty once its comment and surrounding
\* whitespace are removed, and every cell after the last value is 0.
LoadFillsMemoryInOrder ==
    (status = "running" /\ last.kind = "none") =>
        /\ address = Len(ValuesOf(file))
        /\ ram = Image(ValuesOf(file))

LoadedCommentedFile ==
    /\ status = "running" /\ last.kind = "none"
    /\ Len(file) = 9
    /\ address = 6
    /\ ram[0] = LDI /\ ram[2] = 8 /\ ram[3] = PRN /\ ram[5] = 1 /\ ram[6] = 0

\* the value a completed PRN step recorded in s has printed
PrintedBy(s) == StdoutInt(s.register[Idx(OperandOf(s, 1), RegisterCount)])

PrnCompleted == Executed(last, PRN) /\ status = "running"

\* C14 as stated: the output is empty when the run starts, a completed PRN
\* appends the value of its register, and no other step, HLT included,
\* adds anything.
OutputIsPrnValuesOnly ==
    /\ (status = "running" /\ last.kind = "none") => stdout = <<>>
    /\ last.kind # "none" =>
            stdout = IF PrnCompleted THEN Append(last.stdout, PrintedBy(last))
                     ELSE last.stdout

\* C14 amended: the output is empty when the run starts, a completed PRN
\* appends the value of its register, HLT appends the success banner, and
\* no other step adds anything.
OutputIsPrnValuesThenBanner ==
    /\ (status = "running" /\ last.kind = "none") => stdout = <<>>
    /\ last.kind # "none" =>
            stdout = IF PrnCompleted THEN Append(last.stdout, PrintedBy(last))
                     ELSE IF Executed(last, HLT)
                     THEN Append(last.stdout, StdoutText(<<EXIT_SUCCESS>>))
                     ELSE last.stdout

ValueThenBannerPrinted ==
    /\ Executed(last2, PRN) /\ last2.counter = 20
    /\ Executed(last, HLT)
    /\ status = "exited"
    /\ stdout = <<StdoutInt(255), StdoutText(<<EXIT_SUCCESS>>)>>

\* C15: a process started with a number of arguments other than one ends
\* with the usage diagnostic as its only output and an exit status that is
\* neither 0 nor the file-load status 2, without opening the file or
\* executing an instruction.
WrongArgCountIsUsageError ==
    (nargs # 1 /\ status \in {"exited", "crashed"}) =>
        /\ status = "exited"
        /\ stdout = <<StdoutText(<<EXIT_FAILURE, USAGE>>)>>
        /\ exitcode \notin {0, 2}
        /\ lines = file
        /\ last.kind = "none"

\* C16: SHR reg amount replaces register[reg] by its value shifted right by
\* amount with zeros shifted in, a value in 0..255, and advances the counter
\* by 3.
ShrShiftsRightLogically ==
    (/\ Executed(last, SHR) /\ RegisterOperands(last, 1) /\ HasOperand(last, 2)
     /\ OperandOf(last, 2) \in 0..8) =>
        LET reg == OperandOf(last, 1)
            amount == OperandOf(last, 2)
        IN  /\ status = "running"
            /\ register[reg] = last.register[reg] \div Pow2(amount)
            /\ register[reg] \in 0..255
            /\ counter = last.counter + 3

\* C18: once the load has finished, no step of the run writes to memory:
\* every step taken while the machine is running leaves every memory cell
\* as the loader left it.
MemoryFrozenAfterLoad == [][status = "running" => ram' = ram]_vars

\* an LDI that completed: the register changed, memory did not
LdiLeftMemoryAlone ==
    /\ Executed(last, LDI) /\ RegisterOperands(last, 1)
    /\ status = "running"
    /\ register # last.register
    /\ ram = last.ram

JumpOpcodes == {JMP, JEQ, JNE}

\* a machine that has just loaded an image of bytes and has not stepped yet
ByteRunStarts == status = "running" /\ last.kind = "none" /\ ByteProgram

\* the counter stands on a jump or on a stretch opcode
JumpOrStretchReached ==
    /\ status = "running"
    /\ InRange(counter, RamSize)
    /\ ram_read(counter) \in JumpOpcodes \cup Stretch

HaltedByHlt == status = "exited" /\ Executed(last, HLT)
UnknownOpcodeFailure == status = "crashed" /\ last.kind = "op" /\ last.op \notin Catalog

\* the run died reading memory outside 0..255: the opcode or an operand
OutOfRangeFetch ==
    /\ status = "crashed"
    /\ \/ last.kind = "fetch"
       \/ /\ last.kind = "op" /\ last.op \in {LDI, PRN, CMP}
          /\ \E k \in 1..OperandCount(last.op) : ~HasOperand(last, k)

\* the run died indexing the register list outside its eight entries
OutOfRangeRegister ==
    /\ status = "crashed" /\ err.type = "IndexError"
    /\ last.kind = "op" /\ last.op \in {LDI, PRN, CMP}
    /\ \A k \in 1..OperandCount(last.op) : HasOperand(last, k)
    /\ ~RegisterOperands(last, IF last.op = CMP THEN 2 ELSE 1)

\* C19 as stated: a run over an image of bytes whose counter never reaches
\* a jump or a stretch opcode terminates, and it does so by HLT, by the
\* unknown-opcode failure or by an out-of-range fetch.
JumpFreeRunEndsAsListed ==
    ByteRunStarts ~>
        (JumpOrStretchReached \/ HaltedByHlt \/ UnknownOpcodeFailure \/ OutOfRangeFetch)

\* C19 amended: a run over an image of bytes whose counter never reaches a
\* jump or a stretch opcode terminates: by HLT, by the unknown-opcode
\* failure, by an out-of-range fetch, or by the IndexError of an LDI, PRN
\* or CMP whose register operand is outside 0..7.
JumpFreeRunTerminates ==
    ByteRunStarts ~>
        (JumpOrStretchReached \/ HaltedByHlt \/ UnknownOpcodeFailure
            \/ OutOfRangeFetch \/ OutOfRangeRegister)

\* a full memory of loads and prints without a jump: the counter ran off
\* the end of memory
JumpFreeRunRanOff ==
    /\ status = "crashed"
    /\ last.kind = "fetch" /\ last.counter = RamSize
    /\ Executed(last2, PRN)
    /\ ByteProgram
    /\ \A i \in Addresses : ram[i] \notin JumpOpcodes \cup Stretch

====
